---- MODULE Spec2Model ----
(***************************************************************************)
(* Model of src/main.py: PriceScraperBot (the scraping / scheduling /      *)
(* persistence engine) driven by the foreground handlers of                *)
(* PriceScraperUI.  Program-counter labels are the line numbers of         *)
(* src/main.py ("L87" is the `while self.running` test of run_bot).        *)
(***************************************************************************)
EXTENDS Integers, Sequences, FiniteSets, Bags, TLC

(***************************************************************************)
(* Bounds of the model.                                                    *)
(***************************************************************************)
\* number of background threads start() may create in one behaviour
MaxThreads == 2
\* number of scraping rounds begun in one behaviour (all threads together)
MaxRounds == 2
\* largest interval (minutes) the foreground passes to set_interval
MaxInterval == 1
\* largest number of elements in a fetched document, where documents are
\* enumerated
MaxElems == 2
\* largest interval (minutes) given to a cycle that is started once and
\* never stopped
MaxMinutes == 2

(***************************************************************************)
(* Program constants.                                                      *)
(***************************************************************************)
\* self.interval after construction
DefaultInterval == 60
\* time.sleep(10) slices per minute: range(self.interval * 6)
SlicesPerMinute == 6

None == "None"

(***************************************************************************)
(* Text: a Python str is a sequence of one-character strings.              *)
(***************************************************************************)
IsSpace(c) == c = " "

RECURSIVE lstrip(_)
lstrip(s) == IF s # <<>> /\ IsSpace(Head(s)) THEN lstrip(Tail(s)) ELSE s

RECURSIVE rstrip(_)
rstrip(s) ==
    IF s # <<>> /\ IsSpace(s[Len(s)]) THEN rstrip(SubSeq(s, 1, Len(s) - 1)) ELSE s

\* str.strip(), as applied by get_text(strip=True) to an element's text node
strip(s) == rstrip(lstrip(s))

(***************************************************************************)
(* Fetched documents.  A document is the sequence of its elements in       *)
(* document order; an element carries its class and id attributes and the  *)
(* text of its single text node.                                           *)
(***************************************************************************)
\* attribute values that contain the substring "price"
HasPrice == {"price", "sale-price", "product-price"}

\* the selectors soup.select_one is given: the four defaults and ".cost"
Matches(e, sel) ==
    CASE sel = ".price" -> e.class = "price"
      [] sel = "#price" -> e.id = "price"
      [] sel = "[class*=\"price\"]" -> e.class \in HasPrice
      [] sel = "[id*=\"price\"]" -> e.id \in HasPrice
      [] sel = ".cost" -> e.class = "cost"
      [] OTHER -> FALSE

\* soup.select_one(sel): <<e>> for the first matching element in document
\* order, <<>> for None
select_one(doc, sel) ==
    LET hits == {i \in 1..Len(doc) : Matches(doc[i], sel)}
    IN  IF hits = {} THEN <<>>
        ELSE <<doc[CHOOSE i \in hits : \A j \in hits : i <= j]>>

\* price_tag.get_text(strip=True)
get_text(e) == strip(e.text)

\* the default selectors with the id selector tried before the class selector
common_selectors_IdFirst ==
    <<"#price", ".price", "[class*=\"price\"]", "[id*=\"price\"]">>

\* line 56
common_selectors == <<".price", "#price", "[class*=\"price\"]", "[id*=\"price\"]">>

\* the outcome of a call: the text returned, or the text of the exception
\* raised (str(e), a sequence of its words)
Found(text) == [ok |-> TRUE, price |-> text, error |-> <<>>]
Raised(e) == [ok |-> FALSE, price |-> <<>>, error |-> e]

\* lines 54 and 61: the two ValueErrors of the extraction
NotFoundWith(selector) == <<"Price element not found with selector", selector>>
NoDefaultMatch == <<"Price element not found with default selectors">>

\* the loop of lines 57-61 from position i of common_selectors
RECURSIVE TryDefaults(_, _)
TryDefaults(doc, i) ==
    IF i > Len(common_selectors)
    THEN Raised(NoDefaultMatch)
    ELSE IF select_one(doc, common_selectors[i]) # <<>>
         THEN Found(get_text(select_one(doc, common_selectors[i])[1]))
         ELSE TryDefaults(doc, i + 1)

\* line 49: if selector (None and the empty string are falsy)
Truthy(selector) == selector \notin {None, ""}

\* an explicit selector that misses handed over to the default selectors
Extract_FallsBack(doc, selector) ==
    IF Truthy(selector) /\ select_one(doc, selector) # <<>>
    THEN Found(get_text(select_one(doc, selector)[1]))
    ELSE TryDefaults(doc, 1)

\* lines 49-61: extraction from the parsed document
Extract(doc, selector) ==
    IF Truthy(selector)
    THEN IF select_one(doc, selector) # <<>>
         THEN Found(get_text(select_one(doc, selector)[1]))
         ELSE Raised(NotFoundWith(selector))
    ELSE TryDefaults(doc, 1)

\* get_price_from_url applied to what requests.get brought back
get_price_from_url(response, selector) ==
    CASE response.status = "transport" -> Raised(<<"ConnectionError">>)
      [] response.status = "http_error" -> Raised(<<"HTTPError">>)
      [] OTHER -> Extract(response.doc, selector)

Elem(c, i, t) == [class |-> c, id |-> i, text |-> t]

\* <span class="price"> 19.90 </span>
DocClassPrice == <<Elem("price", None, <<" ", "1", "9", ".", "9", "0", " ">>)>>
\* <p class="cost">7</p><div id="price">$5</div>: no .price class present
DocIdPrice == <<Elem("cost", None, <<"7">>), Elem(None, "price", <<"$", "5">>)>>
\* neither class nor id price markers
DocNoPrice == <<Elem("title", "name", <<"x">>)>>

Page(doc) == [status |-> "ok", doc |-> doc]

\* the elements enumerated documents are made of: their texts tell them apart
Elems ==
    { Elem("price", None, <<" ", "1", "9", ".", "9", "0", " ">>),
      Elem(None, "price", <<"$", "5">>),
      Elem("cost", None, <<"7">>),
      Elem("sale-price", None, <<"3", " ">>),
      Elem(None, "product-price", <<" ", "4">>),
      Elem("title", "name", <<"x">>) }

\* every document of at most MaxElems of these elements, in any order
Docs == UNION {[1..n -> Elems] : n \in 0..MaxElems}

\* what a GET may bring back when documents are enumerated
AllResponses ==
    { [status |-> "transport", doc |-> <<>>], [status |-> "http_error", doc |-> <<>>] }
        \cup {Page(d) : d \in Docs}
\* what a GET may bring back, whatever the url
Responses ==
    { [status |-> "transport", doc |-> <<>>], [status |-> "http_error", doc |-> <<>>],
      Page(DocClassPrice) }

(***************************************************************************)
(* The dataset file and pandas.  An entry of self.data is a dict           *)
(* [url, price, timestamp]; a DataFrame is a sequence of rows whose price  *)
(* and timestamp cells carry their dtype; the file is Absent or holds the  *)
(* rows written (the header line is implied).  A written timestamp is the  *)
(* text of the instant, identified by the instant.                         *)
(***************************************************************************)
Absent == [exists |-> FALSE, rows |-> <<>>]
Written(rows) == [exists |-> TRUE, rows |-> rows]

Cell(k, v) == [kind |-> k, v |-> v]

\* pd.DataFrame(self.data): str prices, datetime timestamps
DataFrame(data) ==
    [i \in 1..Len(data) |->
        [url |-> data[i].url, price |-> Cell("str", data[i].price),
         timestamp |-> Cell("datetime", data[i].timestamp)]]

Digits == {"0", "1", "2", "3", "4", "5", "6", "7", "8", "9"}
Count(t, c) == Cardinality({i \in 1..Len(t) : t[i] = c})
IsInt(t) == t # <<>> /\ \A i \in 1..Len(t) : t[i] \in Digits
IsFloat(t) ==
    /\ Count(t, ".") = 1
    /\ Len(t) > 1
    /\ \A i \in 1..Len(t) : t[i] \in Digits \cup {"."}
\* an empty field is read as NaN
IsNaN(t) == t = <<>>

RECURSIVE StripLeadingZeros(_)
StripLeadingZeros(t) ==
    IF Len(t) > 1 /\ Head(t) = "0" THEN StripLeadingZeros(Tail(t)) ELSE t

RECURSIVE StripTrailingZeros(_)
StripTrailingZeros(t) ==
    IF Len(t) > 1 /\ t[Len(t)] = "0"
    THEN StripTrailingZeros(SubSeq(t, 1, Len(t) - 1)) ELSE t

\* str(int(t))
IntRepr(t) == StripLeadingZeros(t)

\* repr(float(t)) for a plain decimal: "19.90" -> "19.9", "7" -> "7.0"
FloatRepr(t) ==
    LET dot == IF Count(t, ".") = 0 THEN Len(t) + 1
               ELSE CHOOSE i \in 1..Len(t) : t[i] = "."
        whole == SubSeq(t, 1, dot - 1)
        frac == SubSeq(t, dot + 1, Len(t))
    IN  StripLeadingZeros(IF whole = <<>> THEN <<"0">> ELSE whole)
          \o <<".">>
          \o StripTrailingZeros(IF frac = <<>> THEN <<"0">> ELSE frac)

\* the dtype read_csv infers for the price column
PriceDtype(rows) ==
    IF \A i \in 1..Len(rows) : IsInt(rows[i].price) THEN "int64"
    ELSE IF \A i \in 1..Len(rows) :
                IsInt(rows[i].price) \/ IsFloat(rows[i].price) \/ IsNaN(rows[i].price)
         THEN "float64"
         ELSE "object"

ParsePrice(t, dtype) ==
    CASE IsNaN(t) -> Cell("nan", <<>>)
      [] dtype = "int64" -> Cell("int", IntRepr(t))
      [] dtype = "float64" -> Cell("float", FloatRepr(t))
      [] OTHER -> Cell("str", t)

\* pd.read_csv(filename) of a readable file
read_csv(rows) ==
    [i \in 1..Len(rows) |->
        [url |-> rows[i].url, price |-> ParsePrice(rows[i].price, PriceDtype(rows)),
         timestamp |-> Cell("str", rows[i].timestamp)]]

\* pd.concat([df_existing, df], ignore_index=True)
concat(df_existing, df) == df_existing \o df

\* df.to_csv(filename, index=False): the rows written
to_csv(df) ==
    [i \in 1..Len(df) |->
        [url |-> df[i].url, price |-> df[i].price.v, timestamp |-> df[i].timestamp.v]]

(***************************************************************************)
(* State.                                                                  *)
(***************************************************************************)
VARIABLES
    sites,          \* self.sites: sequence of (url, selector) pairs
    interval,       \* self.interval
    running,        \* self.running
    thread,         \* self.thread: index of the latest Thread, 0 for None
    data,           \* self.data, shared by every cycle thread
    log,            \* the messages handed to log_callback so far (a bag)
    file,           \* scraped_prices.csv
    clock,          \* datetime.now(): instants handed out so far
    threads,        \* the threading.Thread objects created, in creation order
    main,           \* the foreground (Tk main loop) thread
    start_button,   \* state of self.start_button
    stop_button     \* state of self.stop_button

vars == <<sites, interval, running, thread, data, log, file, clock, threads, main,
          start_button, stop_button>>

\* the targets and selectors the foreground supplies
Target(u, sel) == [url |-> u, selector |-> sel]
SiteInputs ==
    { <<>>, <<Target("u1", None)>>, <<Target("u1", None), Target("u2", ".cost")>> }

Msg(m, u, t, k) == [msg |-> m, url |-> u, text |-> t, n |-> k]
Line(m) == Msg(m, None, <<>>, 0)

\* self.log(message), once for each message of the set ms
Logged(ms) == log' = log (+) SetToBag(ms)

RoundsStarted == CopiesIn(Line("Starting scraping round..."), log)

\* no response yet, or none any more
NoResponse == [status |-> "none", doc |-> <<>>]

\* locals of a cycle thread; frames that have returned hold the defaults.
\* response and e are the response of line 45 and the text of the exception
\* caught at line 73 (empty if none) for the target fetched last; both are
\* forgotten at the thread's next step.
\* stopAt and got are history fields.  stopAt: what the thread was doing when
\* stop() last cleared the flag under it; it is forgotten when the thread
\* leaves the loop over the targets and when it is back at line 87.  got: for
\* each target whose line 70 returned in this call of scrape_all_sites, its
\* position in the list being iterated and the instant of its line 72; it is
\* forgotten when the loop is left.
NewThread ==
    [pc |-> "L87", it |-> <<>>, idx |-> 0, url |-> None, selector |-> None,
     price |-> <<>>, df |-> <<>>, n |-> 0, stopAt |-> None, got |-> <<>>,
     response |-> NoResponse, e |-> <<>>]

Alive(t) == threads[t].pc \notin {"done", "raised"}

Idle == [pc |-> "idle", via |-> None]

Init ==
    /\ sites = <<>>
    /\ interval = DefaultInterval
    /\ running = FALSE
    /\ thread = 0
    /\ data = <<>>
    /\ log = EmptyBag
    /\ file = Absent
    /\ clock = 0
    /\ threads = <<>>
    /\ main = Idle
    /\ start_button = "normal"
    /\ stop_button = "disabled"

(***************************************************************************)
(* Foreground: the handlers of PriceScraperUI and the calls they make on   *)
(* the bot.  via = "ui" when the call comes from a button handler, "api"   *)
(* when a caller drives the bot's control surface directly.                *)
(***************************************************************************)
\* the end of start_bot (lines 197-198) once self.bot.start() has returned
AfterStart ==
    IF main.via = "ui"
    THEN start_button' = "disabled" /\ stop_button' = "normal"
    ELSE UNCHANGED <<start_button, stop_button>>

\* the end of stop_bot (lines 202-203) once self.bot.stop() has returned
AfterStop ==
    IF main.via = "ui"
    THEN start_button' = "normal" /\ stop_button' = "disabled"
    ELSE UNCHANGED <<start_button, stop_button>>

\* lines 171-194: validate the inputs, parse the targets, set_sites and
\* set_interval; self.bot.start() is entered
Configure(via, s, m) ==
    /\ main.pc = "idle"
    /\ s # <<>>
    /\ m > 0
    /\ sites' = s
    /\ interval' = m
    /\ main' = [pc |-> "L31", via |-> via]
    /\ UNCHANGED <<running, thread, data, log, file, clock, threads,
                   start_button, stop_button>>

\* the Start Bot button: a disabled button runs no command
start_bot(s, m) == start_button = "normal" /\ Configure("ui", s, m)

\* start(targets, interval) on the control surface, no button in front of it
start_call(s, m) == Configure("api", s, m)

\* start() without its test of the flag
StartGuard_Always == TRUE

\* line 31: if not self.running
StartGuard == ~running

\* lines 31-34 of start(): the test, the flag, the new Thread
start ==
    /\ main.pc = "L31"
    /\ IF StartGuard
       THEN /\ Len(threads) < MaxThreads
            /\ running' = TRUE
            /\ threads' = Append(threads, NewThread)
            /\ thread' = Len(threads) + 1
            /\ main' = [main EXCEPT !.pc = "L35"]
            /\ UNCHANGED <<start_button, stop_button>>
       ELSE /\ AfterStart
            /\ main' = Idle
            /\ UNCHANGED <<running, threads, thread>>
    /\ UNCHANGED <<sites, interval, data, log, file, clock>>

\* line 35, and the return to the caller
start_log ==
    /\ main.pc = "L35"
    /\ Logged({Line("Bot started.")})
    /\ AfterStart
    /\ main' = Idle
    /\ UNCHANGED <<sites, interval, running, thread, data, file, clock, threads>>

\* the Stop Bot button: self.bot.stop() is entered
stop_bot ==
    /\ main.pc = "idle"
    /\ stop_button = "normal"
    /\ main' = [pc |-> "L38", via |-> "ui"]
    /\ UNCHANGED <<sites, interval, running, thread, data, log, file, clock, threads,
                   start_button, stop_button>>

\* stop() on the control surface
stop_call ==
    /\ main.pc = "idle"
    /\ main' = [pc |-> "L38", via |-> "api"]
    /\ UNCHANGED <<sites, interval, running, thread, data, log, file, clock, threads,
                   start_button, stop_button>>

\* the labels of one round: scrape_all_sites and save_data
RoundLabels == {"L64", "L66", "L70", "L72", "L90", "L77", "L79", "L83"}

\* what stop() finds a thread doing: going through the targets of a round,
\* inside time.sleep(10) in a slice of the sleep loop, or neither
Doing(label) ==
    CASE label \in {"L64", "L66", "L70", "L72"} -> "targets"
      [] label = "L98" -> "slice"
      [] OTHER -> None

\* stop() without its test of the flag
StopGuard_Always == TRUE

\* line 38: if self.running
StopGuard == running

\* lines 38-39 of stop()
stop ==
    /\ main.pc = "L38"
    /\ IF StopGuard
       THEN /\ running' = FALSE
            /\ threads' = [t \in 1..Len(threads) |->
                              IF Alive(t)
                              THEN [threads[t] EXCEPT !.stopAt = Doing(threads[t].pc)]
                              ELSE threads[t]]
            /\ main' = [main EXCEPT !.pc = "L40"]
            /\ UNCHANGED <<start_button, stop_button>>
       ELSE /\ AfterStop
            /\ main' = Idle
            /\ UNCHANGED <<running, threads>>
    /\ UNCHANGED <<sites, interval, thread, data, log, file, clock>>

\* line 40, and the return to the caller
stop_log ==
    /\ main.pc = "L40"
    /\ Logged({Line("Stopping bot...")})
    /\ AfterStop
    /\ main' = Idle
    /\ UNCHANGED <<sites, interval, running, thread, data, file, clock, threads>>

(***************************************************************************)
(* Background: one cycle thread t running run_bot.  A step holds at most   *)
(* one access to the state the threads share, besides the log lines it     *)
(* writes.                                                                 *)
(***************************************************************************)
At(t, label) == t \in 1..Len(threads) /\ threads[t].pc = label

Goto(t, label) == threads' = [threads EXCEPT ![t].pc = label]

\* line 87: while self.running; then line 88, or line 99 and the thread's end
while_running(t) ==
    /\ At(t, "L87")
    /\ IF running
       THEN /\ RoundsStarted < MaxRounds
            /\ Logged({Line("Starting scraping round...")})
            /\ threads' = [threads EXCEPT ![t].pc = "L64", ![t].stopAt = None]
       ELSE /\ Logged({Line("Bot stopped.")})
            /\ threads' = [threads EXCEPT ![t].pc = "done", ![t].stopAt = None]
    /\ UNCHANGED <<sites, interval, running, thread, data, file, clock, main,
                   start_button, stop_button>>

\* line 64: self.data = []; line 65, first evaluation: iter(self.sites) holds
\* the list bound at this moment
scrape_begin(t) ==
    /\ At(t, "L64")
    /\ data' = <<>>
    /\ threads' = [threads EXCEPT ![t].pc = "L66", ![t].it = sites, ![t].idx = 1]
    /\ UNCHANGED <<sites, interval, running, thread, log, file, clock, main,
                   start_button, stop_button>>

\* line 66: if not self.running (break)
BreakRound == ~running

\* lines 65-68: the next (url, selector) if any, the test of the flag, the
\* "Scraping" line
next_site(t) ==
    /\ At(t, "L66")
    /\ LET th == threads[t]
       IN  IF th.idx > Len(th.it) \/ BreakRound
           THEN /\ threads' = [threads EXCEPT ![t].pc = "L90", ![t].it = <<>>,
                                              ![t].idx = 0, ![t].stopAt = None,
                                              ![t].got = <<>>,
                                              ![t].response = NoResponse,
                                              ![t].e = <<>>]
                /\ UNCHANGED log
           ELSE /\ threads' = [threads EXCEPT ![t].pc = "L70",
                                              ![t].url = th.it[th.idx].url,
                                              ![t].selector = th.it[th.idx].selector,
                                              ![t].response = NoResponse,
                                              ![t].e = <<>>]
                /\ Logged({Msg("Scraping", th.it[th.idx].url, <<>>, 0)})
    /\ UNCHANGED <<sites, interval, running, thread, data, file, clock, main,
                   start_button, stop_button>>

\* line 70 outside any try: the exception leaves scrape_all_sites and run_bot
OnScrapeError_Uncaught == "raised"

\* line 73: except Exception: where control goes when line 70 raises
OnScrapeError == "L74"

\* lines 69-71 and 73-74: the call inside try, and the line logged for its
\* outcome; after an exception the loop goes on with the next target.  The
\* "Error scraping" line is kept without the exception's text, which e holds.
fetch(t, response) ==
    /\ At(t, "L70")
    /\ LET res == get_price_from_url(response, threads[t].selector)
       IN  IF res.ok
           THEN /\ Logged({Msg("Price found", None, res.price, 0)})
                /\ threads' = [threads EXCEPT ![t].pc = "L72", ![t].price = res.price,
                                              ![t].response = response]
           ELSE IF OnScrapeError = "L74"
           THEN /\ Logged({Msg("Error scraping", threads[t].url, <<>>, 0)})
                /\ threads' = [threads EXCEPT ![t].pc = "L66", ![t].idx = @ + 1,
                                              ![t].url = None, ![t].selector = None,
                                              ![t].response = response,
                                              ![t].e = res.error]
           ELSE /\ UNCHANGED log
                /\ Goto(t, OnScrapeError)
    /\ UNCHANGED <<sites, interval, running, thread, data, file, clock, main,
                   start_button, stop_button>>

\* line 72: self.data.append({...}), on whatever list self.data is bound to now
append_data(t) ==
    /\ At(t, "L72")
    /\ clock' = clock + 1
    /\ data' = Append(data, [url |-> threads[t].url, price |-> threads[t].price,
                             timestamp |-> clock + 1])
    /\ threads' = [threads EXCEPT ![t].pc = "L66", ![t].idx = @ + 1,
                                  ![t].url = None, ![t].selector = None,
                                  ![t].price = <<>>,
                                  ![t].response = NoResponse,
                                  ![t].got = Append(@, [idx |-> threads[t].idx,
                                                        at |-> clock + 1])]
    /\ UNCHANGED <<sites, interval, running, thread, log, file, main,
                   start_button, stop_button>>

\* save_data called whatever the round collected
HasData_Always == TRUE

\* line 90: if self.data
HasData == data # <<>>

\* lines 90-94: save_data is entered, or the "No data" and "Sleeping" lines
if_data(t) ==
    /\ At(t, "L90")
    /\ IF HasData
       THEN /\ Goto(t, "L77")
            /\ UNCHANGED log
       ELSE /\ Goto(t, "L95")
            /\ Logged({Line("No data scraped this round."),
                       Msg("Sleeping", None, <<>>, interval)})
    /\ UNCHANGED <<sites, interval, running, thread, data, file, clock, main,
                   start_button, stop_button>>

\* line 77: df = pd.DataFrame(self.data)
make_frame(t) ==
    /\ At(t, "L77")
    /\ threads' = [threads EXCEPT ![t].pc = "L79", ![t].df = DataFrame(data)]
    /\ UNCHANGED <<sites, interval, running, thread, data, log, file, clock, main,
                   start_button, stop_button>>

\* the frame lost when the file is missing
OnFileNotFound_Drop(df) == <<>>

\* lines 81-82: except FileNotFoundError: pass
OnFileNotFound(df) == df

\* lines 78-82: read_csv and concat; FileNotFoundError alone is caught.  Any
\* other failure of the read (PermissionError; EmptyDataError on a file with
\* no header; ParserError) leaves save_data and run_bot as an exception and
\* ends the thread.
load_existing(t, fails) ==
    /\ At(t, "L79")
    /\ IF ~file.exists
       THEN threads' = [threads EXCEPT ![t].pc = "L83", ![t].df = OnFileNotFound(@)]
       ELSE IF fails \/ file.rows = <<>>
            THEN threads' = [threads EXCEPT ![t].pc = "raised", ![t].df = <<>>]
            ELSE threads' = [threads EXCEPT ![t].pc = "L83",
                                            ![t].df = concat(read_csv(file.rows), @)]
    /\ UNCHANGED <<sites, interval, running, thread, data, log, file, clock, main,
                   start_button, stop_button>>

\* lines 83-84 and 94: df.to_csv overwrites the file, then the "Data saved"
\* and "Sleeping" lines; an OSError of the write (disk full, permissions) is
\* caught nowhere
write_file(t, fails) ==
    /\ At(t, "L83")
    /\ IF fails
       THEN /\ threads' = [threads EXCEPT ![t].pc = "raised", ![t].df = <<>>]
            /\ UNCHANGED <<file, log>>
       ELSE /\ file' = Written(to_csv(threads[t].df))
            /\ threads' = [threads EXCEPT ![t].pc = "L95", ![t].df = <<>>]
            /\ Logged({Line("Data saved to scraped_prices.csv"),
                       Msg("Sleeping", None, <<>>, interval)})
    /\ UNCHANGED <<sites, interval, running, thread, data, clock, main,
                   start_button, stop_button>>

\* a sleep of one minute whatever the interval
SleepSlices_OneMinute(minutes) == SlicesPerMinute

\* line 95: self.interval * 6
SleepSlices(minutes) == minutes * SlicesPerMinute

\* line 95: range(self.interval * 6), evaluated once
sleep_range(t) ==
    /\ At(t, "L95")
    /\ threads' = [threads EXCEPT ![t].pc = "L96", ![t].n = SleepSlices(interval)]
    /\ UNCHANGED <<sites, interval, running, thread, data, log, file, clock, main,
                   start_button, stop_button>>

\* line 96: if not self.running (break)
BreakSleep == ~running

\* lines 95-97: the next slice if any, then the test of the flag
next_slice(t) ==
    /\ At(t, "L96")
    /\ IF threads[t].n = 0 \/ BreakSleep
       THEN threads' = [threads EXCEPT ![t].pc = "L87", ![t].n = 0]
       ELSE threads' = [threads EXCEPT ![t].pc = "L98", ![t].n = @ - 1]
    /\ UNCHANGED <<sites, interval, running, thread, data, log, file, clock, main,
                   start_button, stop_button>>

\* line 98: time.sleep(10) returns
sleep_slice(t) ==
    /\ At(t, "L98")
    /\ Goto(t, "L96")
    /\ UNCHANGED <<sites, interval, running, thread, data, log, file, clock, main,
                   start_button, stop_button>>

\* a step of cycle thread t, its GETs answered from the set responses
CycleOn(t, responses) ==
    \/ while_running(t) \/ scrape_begin(t) \/ next_site(t)
    \/ (\E r \in responses : fetch(t, r))
    \/ append_data(t) \/ if_data(t) \/ make_frame(t)
    \/ (\E f \in BOOLEAN : load_existing(t, f))
    \/ (\E f \in BOOLEAN : write_file(t, f))
    \/ sleep_range(t) \/ next_slice(t) \/ sleep_slice(t)

Cycle(t) == CycleOn(t, Responses)

Threads == \E t \in 1..MaxThreads : Cycle(t)

Handlers ==
    \/ \E s \in SiteInputs, m \in 0..MaxInterval : start_bot(s, m)
    \/ stop_bot

Calls ==
    \/ \E s \in SiteInputs, m \in 0..MaxInterval : start_call(s, m)
    \/ stop_call

Bot == start \/ start_log \/ stop \/ stop_log

\* the bot under any foreground caller of its control surface
Next == Calls \/ Bot \/ Threads

Spec == Init /\ [][Next]_vars

\* the program as shipped: the bot behind its two buttons
NextUI == Handlers \/ Bot \/ Threads

SpecUI == Init /\ [][NextUI]_vars

\* the selectors a single target is given: unset, empty, the four defaults
\* spelled out, and ".cost"
SelectorInputs ==
    {None, "", ".price", "#price", "[class*=\"price\"]", "[id*=\"price\"]", ".cost"}

CycleSites == {<<Target("u1", sel)>> : sel \in SelectorInputs}

\* a caller that starts the bot while it is idle
start_once(s, m) == ~running /\ start_call(s, m)

\* one cycle, started once and never stopped, fetching enumerated documents:
\* run_bot, scrape_all_sites, get_price_from_url and save_data on their own
NextCycle ==
    \/ \E s \in CycleSites, m \in 1..MaxMinutes : start_once(s, m)
    \/ start
    \/ start_log
    \/ \E t \in 1..MaxThreads : CycleOn(t, AllResponses)

SpecCycle == Init /\ [][NextCycle]_vars

(***************************************************************************)
(* Properties.                                                             *)
(***************************************************************************)
Ids == 1..Len(threads)
InRound(t) == threads[t].pc \in RoundLabels

\* C1: rounds execute strictly one after another: in no reachable state are
\* two cycle threads inside a round at the same time, whatever the order of
\* the start and stop calls.
C1_RoundsNeverOverlap ==
    \A t, u \in Ids : (InRound(t) /\ InRound(u)) => t = u

\* C2: a start() call made while the flag is set (a second start with no stop
\* in between) creates no thread, leaves the flag and the latest-thread
\* reference alone and logs nothing.
C2_SecondStartCreatesNothing ==
    [][(main.pc = "L31" /\ running /\ main'.pc # "L31")
          => (threads' = threads /\ thread' = thread /\ running' = running
              /\ log' = log /\ main'.pc = "idle")]_vars

\* start() has been entered while a cycle started earlier is running
C2_Witness ==
    /\ main.pc = "L31"
    /\ running
    /\ Len(threads) = 1
    /\ Alive(1)
    /\ CopiesIn(Line("Bot started."), log) = 1

\* C3: a failure of the dataset's load or write other than "file absent" does
\* not end the cycle: no cycle thread is ever terminated by an exception.
C3_SaveFailureKeepsCycle ==
    \A t \in Ids : threads[t].pc # "raised"

Moved(t) == threads'[t].pc # threads[t].pc

\* C4: a cycle that was in a sleep slice when stop() cleared the flag starts
\* no further sleep slice and no further round.
C4_StopInSliceEndsCycle ==
    [][\A t \in Ids :
          (threads[t].stopAt = "slice" /\ Moved(t))
             => threads'[t].pc \notin {"L98", "L64"}]_vars

\* C5: a target whose fetch or extraction fails neither ends the round nor
\* raises out of scrape_all_sites: the loop goes on with the target after it,
\* on the same list.
C5_FailedTargetDoesNotAbort ==
    [][\A t \in Ids :
          (threads[t].pc = "L70" /\ Moved(t))
             => /\ threads'[t].pc \in {"L72", "L66"}
                /\ threads'[t].it = threads[t].it
                /\ threads'[t].pc = "L66" => threads'[t].idx = threads[t].idx + 1]_vars

ErrorLine(u) == Msg("Error scraping", u, <<>>, 0)

\* the first target of a two-target round failed and the second is being fetched
C5_Witness ==
    /\ Len(threads) = 1
    /\ threads[1].pc = "L70"
    /\ threads[1].idx = 2
    /\ threads[1].url = "u2"
    /\ CopiesIn(ErrorLine("u1"), log) = 1
    /\ RoundsStarted = 1

\* the rows of a frame that come from this round, not from the file
NewRows(df) == SelectSeq(df, LAMBDA r : r.timestamp.kind = "datetime")

\* C6: a successful write of a non-empty round result leaves the file with
\* exactly the rows it held, unchanged and in order, followed by the round's
\* rows (stated for a bot whose only cycle is the one writing).
C6_PriorRowsKept ==
    [][\A t \in Ids :
          (Len(threads) = 1 /\ threads[t].pc = "L83" /\ threads'[t].pc = "L95"
           /\ NewRows(threads[t].df) # <<>>)
             => file'.rows = file.rows \o to_csv(NewRows(threads[t].df))]_vars

\* C7: save_data on a missing file raises nothing and keeps the round's frame
\* as it is, and the write of a non-empty frame creates the file with exactly
\* the rows of the round result.
C7_MissingFileIsEmpty ==
    [][\A t \in Ids :
          /\ (threads[t].pc = "L79" /\ ~file.exists /\ Moved(t))
                => (threads'[t].pc = "L83" /\ threads'[t].df = threads[t].df
                    /\ file' = file)
          /\ (threads[t].pc = "L83" /\ ~file.exists /\ threads[t].df # <<>>
              /\ threads'[t].pc = "L95")
                => (file'.exists /\ file'.rows = to_csv(threads[t].df)
                    /\ NewRows(threads[t].df) = threads[t].df
                    /\ \A i \in 1..Len(threads[t].df) :
                          threads[t].df[i].price.kind = "str")]_vars

\* the first save of a behaviour has created the file from one round's result
C7_Witness ==
    /\ file = Written(<<[url |-> "u1", price |-> <<"1", "9", ".", "9", "0">>,
                         timestamp |-> 1]>>)
    /\ CopiesIn(Line("Data saved to scraped_prices.csv"), log) = 1
    /\ RoundsStarted = 1

NoDataLine == Line("No data scraped this round.")
SavedLine == Line("Data saved to scraped_prices.csv")

\* C8: when the round's result is empty at line 90, save_data is not entered
\* (the file is neither read nor written and stays as it is) and the "No data"
\* line is logged, not the "Data saved" line.
C8_EmptyRoundIsNoOp ==
    [][\A t \in Ids :
          (threads[t].pc = "L90" /\ data = <<>> /\ Moved(t))
             => /\ threads'[t].pc = "L95"
                /\ file' = file
                /\ CopiesIn(NoDataLine, log') = CopiesIn(NoDataLine, log) + 1
                /\ CopiesIn(SavedLine, log') = CopiesIn(SavedLine, log)]_vars

\* an empty round has gone by with the dataset of an earlier round in place
C8_Witness ==
    /\ file.exists
    /\ Len(file.rows) = 1
    /\ CopiesIn(NoDataLine, log) = 1
    /\ CopiesIn(SavedLine, log) = 1
    /\ \E t \in Ids : threads[t].pc = "L95"

\* C9: once stop() has cleared the flag while a cycle goes through the
\* targets of a round, the cycle fetches no further target of that round, and
\* what the round collected goes to save_data.
C9_StopEndsRoundKeepsPartial ==
    [][\A t \in Ids :
          /\ (threads[t].stopAt = "targets" /\ threads[t].pc = "L66")
                => threads'[t].pc # "L70"
          /\ (threads[t].pc = "L90" /\ data # <<>> /\ Moved(t))
                => threads'[t].pc = "L77"]_vars

\* C10: a start(targets, interval) call made while the flag is set changes
\* neither the targets nor the interval nor the flag, and begins no cycle.
C10_StartWhileRunningIsNoOp ==
    [][(running /\ main.pc \in {"idle", "L31"} /\ main'.pc \in {"L31", "idle"}
        /\ main' # main)
          => UNCHANGED <<sites, interval, running, threads, thread>>]_vars

\* C11: when a cycle leaves the loop over the targets, self.data is exactly
\* what this call of scrape_all_sites collected: one observation for each
\* target whose fetch and extraction succeeded, in target order, and nothing
\* else.
C11_RoundResultIsSuccessSubsequence ==
    [][\A t \in Ids :
          (threads[t].pc = "L66" /\ threads'[t].pc = "L90")
             => /\ Len(data) = Len(threads[t].got)
                /\ \A j \in 1..Len(data) :
                      /\ data[j].url = threads[t].it[threads[t].got[j].idx].url
                      /\ data[j].timestamp = threads[t].got[j].at
                /\ \A j, k \in 1..Len(threads[t].got) :
                      j < k => threads[t].got[j].idx < threads[t].got[k].idx]_vars

StoppedLine == Line("Bot stopped.")

\* C12: once stop() has cleared the flag and no cycle has a step left to
\* take, every cycle that was started has emitted "Bot stopped." exactly once
\* (a cycle whose last step was not that message will never emit it).
C12_StoppedCycleEmitsFinalOnce ==
    (~running /\ \A t \in Ids : ~Alive(t))
        => CopiesIn(StoppedLine, log) = Len(threads)

\* the least position of a non-empty set of positions
First(positions) == CHOOSE i \in positions : \A j \in positions : i <= j

PriceLine(text) == Msg("Price found", None, text, 0)

\* C13: a fetch that brought back a document, for a target with a non-empty
\* selector, applies that selector alone: if elements match, the price is the
\* stripped text of the first of them in document order; if none matches, the
\* call fails with the error that names the selector, whatever the default
\* selectors would have found.
C13_ExplicitSelectorOnly ==
    [][\A t \in Ids :
          (threads[t].pc = "L70" /\ Moved(t) /\ Truthy(threads[t].selector)
           /\ threads'[t].response.status = "ok")
             => LET sel == threads[t].selector
                    doc == threads'[t].response.doc
                    hits == {i \in 1..Len(doc) : Matches(doc[i], sel)}
                IN  IF hits # {}
                    THEN /\ threads'[t].pc = "L72"
                         /\ threads'[t].price = strip(doc[First(hits)].text)
                         /\ threads'[t].e = <<>>
                         /\ log' = log (+) SetToBag({PriceLine(threads'[t].price)})
                    ELSE /\ threads'[t].pc = "L66"
                         /\ threads'[t].price = <<>>
                         /\ threads'[t].e = NotFoundWith(sel)
                         /\ log' = log (+) SetToBag({ErrorLine(threads[t].url)})]_vars

\* ".cost" matched in the first round (its "7" is in the dataset) and, in
\* the second, failed on <span class="price"> 19.90 </span>, which the
\* default selectors match
C13_Witness ==
    /\ Len(threads) = 1
    /\ threads[1].pc = "L66"
    /\ threads[1].e = NotFoundWith(".cost")
    /\ threads[1].response = Page(DocClassPrice)
    /\ Len(file.rows) = 1
    /\ file.rows[1].price = <<"7">>
    /\ RoundsStarted = 2

\* C14: a fetch that brought back a document, for a target without selector,
\* returns the stripped text of the first element of class "price" if there
\* is one, else of the first element of id "price", else of the first whose
\* class contains "price", else of the first whose id contains "price"; if
\* there is none of these the call fails with the default-selectors error.
C14_DefaultsInOrder ==
    [][\A t \in Ids :
          (threads[t].pc = "L70" /\ Moved(t) /\ ~Truthy(threads[t].selector)
           /\ threads'[t].response.status = "ok")
             => LET doc == threads'[t].response.doc
                    at == 1..Len(doc)
                    classIs == {i \in at : doc[i].class = "price"}
                    idIs == {i \in at : doc[i].id = "price"}
                    classHas == {i \in at : doc[i].class \in HasPrice}
                    idHas == {i \in at : doc[i].id \in HasPrice}
                    hits == IF classIs # {} THEN classIs
                            ELSE IF idIs # {} THEN idIs
                            ELSE IF classHas # {} THEN classHas
                            ELSE idHas
                IN  IF hits # {}
                    THEN /\ threads'[t].pc = "L72"
                         /\ threads'[t].price = strip(doc[First(hits)].text)
                         /\ threads'[t].e = <<>>
                         /\ log' = log (+) SetToBag({PriceLine(threads'[t].price)})
                    ELSE /\ threads'[t].pc = "L66"
                         /\ threads'[t].price = <<>>
                         /\ threads'[t].e = NoDefaultMatch
                         /\ log' = log (+) SetToBag({ErrorLine(threads[t].url)})]_vars

\* without selector: the first round returned the element of id "price"
\* ("#price": its "$5" is in the dataset) and the second found no default
\* selector matching <h1 class="title" id="name">x</h1>
C14_Witness ==
    /\ Len(threads) = 1
    /\ threads[1].pc = "L66"
    /\ threads[1].e = NoDefaultMatch
    /\ threads[1].response = Page(DocNoPrice)
    /\ Len(file.rows) = 1
    /\ file.rows[1].price = <<"$", "5">>
    /\ sites = <<Target("u1", None)>>
    /\ RoundsStarted = 2

\* C15: the sleep after a round is a countdown of interval * 6 slices: line
\* 95 sets the count from the interval, every slice is entered from the test
\* of the flag at line 96 with the flag set and takes one off the count, and
\* while the flag is set line 87 (the next round) is reached only when no
\* slice is left.
C15_SleepIsIntervalTimesSix ==
    [][\A t \in Ids :
          /\ (threads[t].pc = "L95" /\ Moved(t))
                => (threads'[t].pc = "L96"
                    /\ threads'[t].n = interval * SlicesPerMinute)
          /\ (threads[t].pc = "L96" /\ Moved(t) /\ running)
                => IF threads[t].n > 0
                   THEN threads'[t].pc = "L98" /\ threads'[t].n = threads[t].n - 1
                   ELSE threads'[t].pc = "L87"
          /\ (threads'[t].pc = "L98" /\ Moved(t))
                => (threads[t].pc = "L96" /\ running)
          /\ (threads[t].pc = "L98" /\ Moved(t))
                => (threads'[t].pc = "L96" /\ threads'[t].n = threads[t].n)]_vars

\* a cycle given 2 minutes has slept its 12 slices and begun its second round
C15_Witness ==
    /\ Len(threads) = 1
    /\ interval = 2
    /\ threads[1].pc = "L64"
    /\ RoundsStarted = 2
    /\ CopiesIn(Msg("Sleeping", None, <<>>, 2), log) = 1

\* the rows of the dataset file that carry the observation made at instant k
RowsOf(k) == {i \in 1..Len(file.rows) : file.rows[i].timestamp = k}

\* C16: once every cycle that was started has ended at line 99 (none was
\* ended by an exception), every observation appended at line 72 is in the
\* dataset exactly once.
C16_EachObservationWrittenOnce ==
    (\A t \in Ids : threads[t].pc = "done")
        => \A k \in 1..clock : Cardinality(RowsOf(k)) = 1

\* C17: the flag changes only in start(), from FALSE to TRUE at lines 31-32,
\* and in stop(), from TRUE to FALSE at lines 38-39; a step of a cycle thread
\* changes neither the flag nor the targets nor the interval; and stop()
\* entered with the flag cleared returns having changed and logged nothing.
C17_FlagWrittenByStartStopOnly ==
    [][/\ running' # running
            => \/ main.pc = "L31" /\ ~running /\ running' /\ main'.pc = "L35"
               \/ main.pc = "L38" /\ running /\ ~running' /\ main'.pc = "L40"
       /\ \A t \in Ids : Moved(t) => UNCHANGED <<running, sites, interval>>
       /\ (main.pc = "L38" /\ ~running /\ main' # main)
            => (main'.pc = "idle"
                /\ UNCHANGED <<sites, interval, running, thread, data, log, file,
                               clock, threads>>)]_vars

\* stop() has been entered a second time, after the cycle stopped by the
\* first has ended
C17_Witness ==
    /\ main.pc = "L38"
    /\ ~running
    /\ Len(threads) = 1
    /\ threads[1].pc = "done"
    /\ CopiesIn(Line("Stopping bot..."), log) = 1

StartedLine == Line("Bot started.")
RoundLine == Line("Starting scraping round...")
StoppingLine == Line("Stopping bot...")

\* C18: the bot is never wedged: while the flag is set, a cycle thread is
\* alive.
C18_RunningHasLiveCycle ==
    running => \E t \in Ids : Alive(t)

\* C19: when the t-th cycle logs its first "Starting scraping round...", the
\* "Bot started." line of each of the t start() calls made so far has been
\* delivered; and when a cycle logs "Bot stopped.", a "Stopping bot..." line
\* has been delivered that no earlier "Bot stopped." answers.
C19_LogFollowsLifecycle ==
    [][\A t \in Ids :
          /\ (threads[t].pc = "L87" /\ threads'[t].pc = "L64")
                => CopiesIn(StartedLine, log) >= t
          /\ (threads[t].pc = "L87" /\ threads'[t].pc = "done")
                => CopiesIn(StoppingLine, log) > CopiesIn(StoppedLine, log)]_vars

====
